---- MODULE Spec2Model ----
(***************************************************************************)
(* A model of nebularag: the character-offset chunker (split_text), the    *)
(* in-memory vector store (InMemoryVectorStore), alone, under a pipeline   *)
(* and under two concurrent callers of add, the retrieve / rerank / answer *)
(* orchestration (RAGPipeline) over the external inference client, and the *)
(* cached settings (get_settings).                                         *)
(*                                                                         *)
(* Conventions.                                                            *)
(*  - A Python str is a sequence of one-character strings.                 *)
(*  - A Python list is a sequence; Python positions are 0-based, so the    *)
(*    element at Python position i of list s is s[i + 1].                  *)
(*  - A float score is the exact real it approximates, kept as a record    *)
(*    [num, den] standing for sign(num) * sqrt(|num| / den), den > 0, and  *)
(*    compared by cross-multiplication (see cosine_similarity).            *)
(*  - An operation of the program is one action; the record op holds what  *)
(*    the last operation was given, what it returned or raised, the        *)
(*    external calls it made in order, and the store as it was before it.  *)
(***************************************************************************)
EXTENDS Integers, Sequences, FiniteSets, TLC

VARIABLES
    texts,          \* InMemoryVectorStore.texts
    embeddings,     \* InMemoryVectorStore.embeddings
    chunk_size,     \* RAGPipeline.chunk_size
    chunk_overlap,  \* RAGPipeline.chunk_overlap
    top_k,          \* RAGPipeline.top_k
    rerank_k,       \* RAGPipeline.rerank_k
    op,             \* the last completed operation (see NoOp)
    sp,             \* the frame of a running split_text call (see SplitInit)
    env,            \* os.environ, the variables settings.py reads
    _settings,      \* settings.py: the module global _settings
    adders          \* the frames of the add calls of concurrent callers

vars == <<texts, embeddings, chunk_size, chunk_overlap, top_k, rerank_k, op, sp,
          env, _settings, adders>>

----------------------------------------------------------------------------
(* Bounds of the model *)

\* a store used directly never grows beyond this many entries
MaxStore == 3
\* a pipeline's store never grows beyond this many entries
MaxIndexed == 2
\* largest k given to search
MaxK == 2
\* longest list of results the external rerank capability answers with
MaxResults == 2
\* longest text given to a stepwise split_text call
MaxLen == 4
\* largest chunk_size given to a stepwise split_text call
MaxChunk == 3

\* characters of the modelled texts; Whitespace is what str.strip() removes
Whitespace == {" "}
Alphabet == {"a", "b", " "}

\* embedding vectors added to a store used directly: two dimensions, a zero
\* vector, orthogonal and opposite directions
Vectors == {<<1>>, <<0, 0>>, <<1, 0>>, <<0, 1>>, <<-1, 1>>}
\* query vectors given to search
Queries == {<<1>>, <<0, 0>>, <<1, 0>>, <<1, 1>>}
\* the vectors the external embed capability answers with
EmbedVectors == {<<1, 0>>, <<0, 1>>}

----------------------------------------------------------------------------
(* Python list helpers *)

Min(a, b) == IF a <= b THEN a ELSE b
Max(a, b) == IF a >= b THEN a ELSE b

\* s[lo:hi] for 0 <= lo, 0 <= hi (Python slice, 0-based, half-open)
Slice(s, lo, hi) == SubSeq(s, lo + 1, Min(hi, Len(s)))

\* s[:m] for any integer m: a negative m counts from the end
Prefix(s, m) == IF m >= 0 THEN Slice(s, 0, m) ELSE Slice(s, 0, Max(0, Len(s) + m))

\* all sequences over S of length 0..n
SeqsUpTo(S, n) == UNION {[1..m -> S] : m \in 0..n}

RECURSIVE SumSeq(_)
SumSeq(s) == IF s = <<>> THEN 0 ELSE Head(s) + SumSeq(Tail(s))

----------------------------------------------------------------------------
(* text_processing.py: split_text *)

\* number of leading whitespace characters of s
RECURSIVE LeadingWs(_)
LeadingWs(s) ==
    IF s = <<>> \/ Head(s) \notin Whitespace THEN 0 ELSE 1 + LeadingWs(Tail(s))

\* number of trailing whitespace characters of s
RECURSIVE TrailingWs(_)
TrailingWs(s) ==
    IF s = <<>> \/ s[Len(s)] \notin Whitespace THEN 0
    ELSE 1 + TrailingWs(SubSeq(s, 1, Len(s) - 1))

\* a strip that removes leading whitespace only
StripSpan_lead(s, lo, hi) ==
    LET w == Slice(s, lo, hi)
        lead == LeadingWs(w)
    IN  IF lead = Len(w) THEN <<lo, lo>>
        ELSE <<lo + lead, lo + Len(w)>>

\* the half-open span <<lo', hi'>> of s[lo:hi].strip() within s; lo' = hi'
\* when s[lo:hi] is all whitespace
StripSpan(s, lo, hi) ==
    LET w == Slice(s, lo, hi)
        lead == LeadingWs(w)
    IN  IF lead = Len(w) THEN <<lo, lo>>
        ELSE <<lo + lead, lo + Len(w) - TrailingWs(w)>>

\* str.strip()
strip(s) == Slice(s, StripSpan(s, 0, Len(s))[1], StripSpan(s, 0, Len(s))[2])

\* no split_text call is running
SplitIdle ==
    [pc |-> "idle", text |-> <<>>, n |-> 0, size |-> 0, overlap |-> 0,
     start |-> 0, end |-> 0, chunks |-> <<>>, spans |-> <<>>]

\* split_text up to its loop: the argument checks, text.strip(), the early
\* return of an empty text, and the locals chunks, start and n.
\* pc: "error" (ValueError), "done" (returned), "loop" (at `while start < n`).
\* spans[j] is where chunks[j] lies in the stripped text.
SplitEnter(text, size, overlap) ==
    LET t == strip(text) IN
    IF size <= 0 \/ overlap < 0 \/ overlap >= size
    THEN [SplitIdle EXCEPT !.pc = "error", !.size = size, !.overlap = overlap]
    ELSE [SplitIdle EXCEPT !.pc = IF t = <<>> THEN "done" ELSE "loop",
                           !.text = t, !.n = Len(t),
                           !.size = size, !.overlap = overlap]

\* a loop iteration that starts the next window one character late
SplitStep_late(f) ==
    LET end == Min(f.n, f.start + f.size)
        span == StripSpan(f.text, f.start, end)
        chunk == Slice(f.text, span[1], span[2])
        emitted == IF chunk # <<>> THEN Append(f.chunks, chunk) ELSE f.chunks
        marked == IF chunk # <<>> THEN Append(f.spans, span) ELSE f.spans
    IN  IF end = f.n
        THEN [f EXCEPT !.pc = "done", !.end = end, !.chunks = emitted, !.spans = marked]
        ELSE [f EXCEPT !.pc = IF end + 1 - f.overlap < f.n THEN "loop" ELSE "done",
                       !.end = end, !.start = end + 1 - f.overlap,
                       !.chunks = emitted, !.spans = marked]

\* a loop iteration that leaves the cursor where it is
SplitStep_stuck(f) ==
    LET end == Min(f.n, f.start + f.size)
        span == StripSpan(f.text, f.start, end)
        chunk == Slice(f.text, span[1], span[2])
    IN  IF end = f.n
        THEN [f EXCEPT !.pc = "done", !.end = end,
                       !.chunks = IF chunk # <<>> THEN <<chunk>> ELSE <<>>,
                       !.spans = IF chunk # <<>> THEN <<span>> ELSE <<>>]
        ELSE [f EXCEPT !.end = end,
                       !.chunks = IF chunk # <<>> THEN <<chunk>> ELSE <<>>,
                       !.spans = IF chunk # <<>> THEN <<span>> ELSE <<>>]

\* one iteration of `while start < n`, entered with f.pc = "loop"
SplitStep(f) ==
    LET end == Min(f.n, f.start + f.size)
        span == StripSpan(f.text, f.start, end)
        chunk == Slice(f.text, span[1], span[2])
        emitted == IF chunk # <<>> THEN Append(f.chunks, chunk) ELSE f.chunks
        marked == IF chunk # <<>> THEN Append(f.spans, span) ELSE f.spans
    IN  IF end = f.n
        THEN [f EXCEPT !.pc = "done", !.end = end, !.chunks = emitted, !.spans = marked]
        ELSE [f EXCEPT !.pc = IF end - f.overlap < f.n THEN "loop" ELSE "done",
                       !.end = end, !.start = end - f.overlap,
                       !.chunks = emitted, !.spans = marked]

\* the loop run to its end
RECURSIVE SplitRun(_)
SplitRun(f) == IF f.pc = "loop" THEN SplitRun(SplitStep(f)) ELSE f

\* split_text(text, chunk_size, chunk_overlap): the chunks, or raised
split_text(text, size, overlap) ==
    LET f == SplitRun(SplitEnter(text, size, overlap))
    IN  [raised |-> f.pc = "error", chunks |-> f.chunks]

----------------------------------------------------------------------------
(* vector_store.py: _dot, _norm, cosine_similarity *)

\* _dot: zip stops at the shorter vector
_dot(a, b) == SumSeq([i \in 1..Min(Len(a), Len(b)) |-> a[i] * b[i]])

\* _norm(a) is sqrt(NormSq(a)); the model keeps the square
NormSq(a) == _dot(a, a)

Abs(x) == IF x < 0 THEN -x ELSE x

ZeroScore == [num |-> 0, den |-> 1]

\* cosine_similarity without its length check
cosine_unchecked(a, b) ==
    IF NormSq(a) = 0 \/ NormSq(b) = 0
    THEN [raised |-> FALSE, score |-> ZeroScore]
    ELSE [raised |-> FALSE,
          score  |-> [num |-> _dot(a, b) * Abs(_dot(a, b)),
                      den |-> NormSq(a) * NormSq(b)]]

\* the score dot/(na*nb) as sign(dot) * sqrt(dot^2 / (na^2 * nb^2));
\* [raised |-> TRUE] is the ValueError of vectors of different lengths
cosine_similarity(a, b) ==
    IF Len(a) # Len(b) THEN [raised |-> TRUE, score |-> ZeroScore]
    ELSE IF NormSq(a) = 0 \/ NormSq(b) = 0
         THEN [raised |-> FALSE, score |-> ZeroScore]
         ELSE [raised |-> FALSE,
               score  |-> [num |-> _dot(a, b) * Abs(_dot(a, b)),
                           den |-> NormSq(a) * NormSq(b)]]

\* order and equality of scores as real numbers
ScoreLess(s, t) == s.num * t.den < t.num * s.den
ScoreEq(s, t) == s.num * t.den = t.num * s.den
ScoreLeq(s, t) == s.num * t.den <= t.num * s.den

----------------------------------------------------------------------------
(* vector_store.py: InMemoryVectorStore *)

\* the (i, score) tuples search collects: entries whose cosine_similarity
\* raises are skipped
Scored(embs, q) ==
    LET all == [i \in 1..Len(embs) |->
                   [index |-> i - 1,
                    raised |-> cosine_similarity(q, embs[i]).raised,
                    score |-> cosine_similarity(q, embs[i]).score]]
        kept == SelectSeq(all, LAMBDA t : ~t.raised)
    IN  [j \in 1..Len(kept) |-> [index |-> kept[j].index, score |-> kept[j].score]]

\* a sort step that orders by ascending score
InsertAsc(sorted, x) ==
    LET n == Cardinality({j \in 1..Len(sorted) : ScoreLeq(sorted[j].score, x.score)})
    IN  SubSeq(sorted, 1, n) \o <<x>> \o SubSeq(sorted, n + 1, Len(sorted))

\* one step of the stable sort by descending score: x goes after every
\* element whose score is at least its own
InsertDesc(sorted, x) ==
    LET n == Cardinality({j \in 1..Len(sorted) : ScoreLeq(x.score, sorted[j].score)})
    IN  SubSeq(sorted, 1, n) \o <<x>> \o SubSeq(sorted, n + 1, Len(sorted))

\* scores.sort(key=lambda t: t[1], reverse=True): stable, descending
RECURSIVE SortDesc(_)
SortDesc(s) ==
    IF s = <<>> THEN <<>>
    ELSE InsertDesc(SortDesc(SubSeq(s, 1, Len(s) - 1)), s[Len(s)])

\* InMemoryVectorStore.search
search(embs, q, k) ==
    IF k <= 0 THEN [raised |-> TRUE, pairs |-> <<>>]
    ELSE IF embs = <<>> THEN [raised |-> FALSE, pairs |-> <<>>]
    ELSE [raised |-> FALSE, pairs |-> Slice(SortDesc(Scored(embs, q)), 0, k)]

\* add without its length check
add_unchecked(ts0, es0, ts, es) ==
    [raised |-> FALSE, texts |-> ts0 \o ts, embeddings |-> es0 \o es]

\* add that extends texts before it checks the lengths
add_extend_first(ts0, es0, ts, es) ==
    IF Len(ts) # Len(es) THEN [raised |-> TRUE, texts |-> ts0 \o ts, embeddings |-> es0]
    ELSE [raised |-> FALSE, texts |-> ts0 \o ts, embeddings |-> es0 \o es]

\* add that puts the new entries in front of the stored ones
add_prepend(ts0, es0, ts, es) ==
    IF Len(ts) # Len(es) THEN [raised |-> TRUE, texts |-> ts0, embeddings |-> es0]
    ELSE [raised |-> FALSE, texts |-> ts \o ts0, embeddings |-> es \o es0]

\* InMemoryVectorStore.add: the store after the call and whether it raised
add(ts0, es0, ts, es) ==
    IF Len(ts) # Len(es) THEN [raised |-> TRUE, texts |-> ts0, embeddings |-> es0]
    ELSE IF ts = <<>> THEN [raised |-> FALSE, texts |-> ts0, embeddings |-> es0]
    ELSE [raised |-> FALSE, texts |-> ts0 \o ts, embeddings |-> es0 \o es]

----------------------------------------------------------------------------
(* settings.py: Settings, get_settings, reset_settings *)

\* Python's None
None == [none |-> TRUE]

\* an environment variable that is not set, and one set to the string v
Unset == [set |-> FALSE, value |-> <<>>]
SetTo(v) == [set |-> TRUE, value |-> v]

\* the defaults of the Settings fields validate reads
default_chunk_size == 800
default_chunk_overlap == 120
default_top_k == 12
default_rerank_k == 6

Digits == <<"0", "1", "2", "3", "4", "5", "6", "7", "8", "9">>
IsDigit(c) == \E i \in 1..10 : Digits[i] = c
DigitValue(c) == (CHOOSE i \in 1..10 : Digits[i] = c) - 1

\* the number a string of decimal digits stands for
RECURSIVE DigitsValue(_)
DigitsValue(s) ==
    IF s = <<>> THEN 0
    ELSE DigitsValue(SubSeq(s, 1, Len(s) - 1)) * 10 + DigitValue(s[Len(s)])

\* int(s) of a str: surrounding whitespace and one sign are accepted,
\* anything else than decimal digits raises ValueError
int(s) ==
    LET t == strip(s)
        signed == t # <<>> /\ Head(t) \in {"-", "+"}
        body == IF signed THEN Tail(t) ELSE t
    IN  IF body = <<>> \/ \E j \in 1..Len(body) : ~IsDigit(body[j])
        THEN [raised |-> TRUE, value |-> 0]
        ELSE [raised |-> FALSE,
              value |-> IF signed /\ Head(t) = "-" THEN -DigitsValue(body)
                        ELSE DigitsValue(body)]

\* int(os.environ.get(name, default)), the default being an int
IntOr(entry, default) ==
    IF entry.set THEN int(entry.value) ELSE [raised |-> FALSE, value |-> default]

\* the Settings made of the converted values
SettingsOf(key, size, overlap, topk, rerankk) ==
    [raised |-> size.raised \/ overlap.raised \/ topk.raised \/ rerankk.raised,
     settings |-> [nebula_api_key |-> key,
                   default_chunk_size |-> size.value,
                   default_chunk_overlap |-> overlap.value,
                   default_top_k |-> topk.value,
                   default_rerank_k |-> rerankk.value]]

\* Settings.from_env(): the fields validate reads, or raised (ValueError of
\* an int conversion). The variables of the URL, the paths, the model names
\* and the timeout are taken as not set.
from_env(e) ==
    SettingsOf(e.NEBULABLOCK_API_KEY,
               IntOr(e.RAG_CHUNK_SIZE, default_chunk_size),
               IntOr(e.RAG_CHUNK_OVERLAP, default_chunk_overlap),
               IntOr(e.RAG_TOP_K, default_top_k),
               IntOr(e.RAG_RERANK_K, default_rerank_k))

\* Settings.validate(): TRUE when it raises ValueError
validate(st) ==
    \/ ~st.nebula_api_key.set \/ st.nebula_api_key.value = <<>>
    \/ st.default_chunk_overlap >= st.default_chunk_size
    \/ st.default_chunk_size <= 0
    \/ st.default_chunk_overlap < 0
    \/ st.default_top_k <= 0
    \/ st.default_rerank_k <= 0

\* get_settings(), loaded being what Settings.from_env() does if it is
\* called: the global after the call, and what is returned or raised
get_settings(cached, loaded) ==
    IF cached # None THEN [raised |-> FALSE, global |-> cached, returned |-> cached]
    ELSE IF loaded.raised THEN [raised |-> TRUE, global |-> None, returned |-> None]
    ELSE IF validate(loaded.settings)
         THEN [raised |-> TRUE, global |-> loaded.settings, returned |-> None]
    ELSE [raised |-> FALSE, global |-> loaded.settings, returned |-> loaded.settings]

----------------------------------------------------------------------------
(* The record of the last operation *)

NoMax == [supplied |-> FALSE, value |-> 0]

NoOp ==
    [name |-> "none",          \* the operation
     outcome |-> "ok",         \* "ok": it returned; "error": it raised
     error |-> "",             \* the exception raised
     calls |-> <<>>,           \* external calls made, in order
     failed |-> "",            \* the external call that failed, if any
     pre_texts |-> <<>>,       \* the store before the operation
     pre_embeddings |-> <<>>,
     docs |-> <<>>,            \* index_texts: texts, the documents
     in_texts |-> <<>>,        \* add: texts; index_texts: the chunk batch
     in_embeddings |-> <<>>,   \* add: embeddings; index_texts: embed's answer
     query |-> <<>>,           \* search: query_embedding; answer: q_emb
     k |-> 0,                  \* search: k
     pairs |-> <<>>,           \* search / retrieve: the (index, score) pairs
     cand |-> <<>>,            \* rerank: candidate_indices; answer: cand_indices
     results |-> <<>>,         \* the external rerank capability's results
     reranked |-> <<>>,        \* answer: what rerank returned
     fallback |-> FALSE,       \* answer: the retrieval-order prefix was taken
     maxdocs |-> NoMax,        \* answer: max_context_docs
     indices |-> <<>>,         \* rerank: the list returned; answer: final_indices
     sources |-> <<>>,         \* answer: sources
     context |-> <<>>,         \* build_context: the string returned; answer: context
     count |-> 0,              \* index_texts / size: the number returned
     returned |-> None]        \* get_settings: the Settings returned

Before == [NoOp EXCEPT !.pre_texts = texts, !.pre_embeddings = embeddings]

PipelineUnchanged ==
    UNCHANGED <<chunk_size, chunk_overlap, top_k, rerank_k, sp, env, _settings, adders>>

----------------------------------------------------------------------------
(* Store operations *)

\* the caller is between two calls
Idle == op.name = "none"

\* the caller takes the result of the last operation
Return ==
    /\ ~Idle
    /\ op' = NoOp
    /\ UNCHANGED <<texts, embeddings>>
    /\ PipelineUnchanged

\* InMemoryVectorStore.add(ts, es), on a store of capacity cap
Add(ts, es, cap) ==
    \E r \in {add(texts, embeddings, ts, es)} :
    /\ Idle
    /\ Len(texts) + Len(ts) <= cap
    /\ texts' = r.texts
    /\ embeddings' = r.embeddings
    /\ op' = [Before EXCEPT !.name = "add", !.in_texts = ts, !.in_embeddings = es,
                            !.outcome = IF r.raised THEN "error" ELSE "ok",
                            !.error = IF r.raised THEN "ValueError" ELSE ""]
    /\ PipelineUnchanged

\* InMemoryVectorStore.clear()
Clear ==
    /\ Idle
    /\ texts' = <<>>
    /\ embeddings' = <<>>
    /\ op' = [Before EXCEPT !.name = "clear"]
    /\ PipelineUnchanged

\* InMemoryVectorStore.search(q, k)
Search(q, k) ==
    \E r \in {search(embeddings, q, k)} :
    /\ Idle
    /\ op' = [Before EXCEPT !.name = "search", !.query = q, !.k = k,
                            !.pairs = r.pairs,
                            !.outcome = IF r.raised THEN "error" ELSE "ok",
                            !.error = IF r.raised THEN "ValueError" ELSE ""]
    /\ UNCHANGED <<texts, embeddings>>
    /\ PipelineUnchanged

\* InMemoryVectorStore.size()
Size ==
    /\ Idle
    /\ op' = [Before EXCEPT !.name = "size", !.count = Len(texts)]
    /\ UNCHANGED <<texts, embeddings>>
    /\ PipelineUnchanged

----------------------------------------------------------------------------
(* Settings operations *)

SettingsFrame ==
    UNCHANGED <<texts, embeddings, chunk_size, chunk_overlap, top_k, rerank_k, sp,
                env, adders>>

\* get_settings()
GetSettings ==
    \E r \in {get_settings(_settings, from_env(env))} :
    /\ Idle
    /\ _settings' = r.global
    /\ op' = [Before EXCEPT !.name = "get_settings", !.returned = r.returned,
                            !.outcome = IF r.raised THEN "error" ELSE "ok",
                            !.error = IF r.raised THEN "ValueError" ELSE ""]
    /\ SettingsFrame

\* reset_settings()
ResetSettings ==
    /\ Idle
    /\ _settings' = None
    /\ op' = [Before EXCEPT !.name = "reset_settings"]
    /\ SettingsFrame

----------------------------------------------------------------------------
(* rag_pipeline.py: RAGPipeline over the external client *)

\* s[i] of a Python list: positions -len..len-1 exist, others raise IndexError
HasItem(s, i) == -Len(s) <= i /\ i < Len(s)
Item(s, i) == s[((i + Len(s)) % Len(s)) + 1]

\* a list comprehension that reads the first index every time
Items_first(s, indices) == [j \in 1..Len(indices) |-> Item(s, indices[1])]

\* [s[i] for i in indices]
Items(s, indices) == [j \in 1..Len(indices) |-> Item(s, indices[j])]

\* a chunk batch that puts the chunks of a later document first
RECURSIVE Chunked_reversed(_, _, _)
Chunked_reversed(docs, size, overlap) ==
    IF docs = <<>> THEN [raised |-> FALSE, chunks |-> <<>>]
    ELSE LET first == split_text(Head(docs), size, overlap)
             rest == Chunked_reversed(Tail(docs), size, overlap)
         IN  [raised |-> first.raised \/ rest.raised,
              chunks |-> rest.chunks \o first.chunks]

\* the chunk batch of index_texts: split_text of every document, in order;
\* raised when a split_text call raises
RECURSIVE Chunked(_, _, _)
Chunked(docs, size, overlap) ==
    IF docs = <<>> THEN [raised |-> FALSE, chunks |-> <<>>]
    ELSE LET first == split_text(Head(docs), size, overlap)
             rest == Chunked(Tail(docs), size, overlap)
         IN  [raised |-> first.raised \/ rest.raised,
              chunks |-> first.chunks \o rest.chunks]

\* what index_texts returns or raises when nothing was embedded
IndexQuiet(ts0, es0, chunks) ==
    [outcome |-> "ok", error |-> "", calls |-> <<>>, failed |-> "",
     chunks |-> chunks, vectors |-> <<>>,
     texts |-> ts0, embeddings |-> es0, count |-> 0]

\* index_texts from `self.store.add(chunks, embeddings)` on; r is what add
\* did, and the store is as add left it whether it raised or not
IndexAdded(quiet, chunks, vectors, r) ==
    IF r.raised
    THEN [quiet EXCEPT !.outcome = "error", !.error = "ValueError",
                       !.calls = <<"embed">>, !.vectors = vectors,
                       !.texts = r.texts, !.embeddings = r.embeddings]
    ELSE [quiet EXCEPT !.calls = <<"embed">>, !.vectors = vectors,
                       !.texts = r.texts, !.embeddings = r.embeddings,
                       !.count = Len(chunks)]

\* index_texts from `if not chunks` on; c is the chunk batch
IndexChunks(ts0, es0, c, emb) ==
    IF c.raised
    THEN [IndexQuiet(ts0, es0, <<>>) EXCEPT !.outcome = "error", !.error = "ValueError"]
    ELSE IF c.chunks = <<>> THEN IndexQuiet(ts0, es0, <<>>)
    ELSE IF ~emb.ok
         THEN [IndexQuiet(ts0, es0, c.chunks) EXCEPT
                   !.outcome = "error", !.error = "RuntimeError",
                   !.calls = <<"embed">>, !.failed = "embed"]
    ELSE IndexAdded(IndexQuiet(ts0, es0, c.chunks), c.chunks, emb.vectors,
                    add(ts0, es0, c.chunks, emb.vectors))

\* RAGPipeline.index_texts(docs); emb is what client.embed answers when it
\* is called: [ok |-> FALSE] when it raises, else its vectors
index_texts(ts0, es0, docs, size, overlap, emb) ==
    IndexChunks(ts0, es0, Chunked(docs, size, overlap), emb)

RetrieveQuiet ==
    [outcome |-> "error", error |-> "", calls |-> <<"embed">>,
     failed |-> "", query |-> <<>>, pairs |-> <<>>]

\* retrieve from `self.store.search(q_emb, k=self.top_k)` on; r is what
\* search did
Retrieved(q, r) ==
    IF r.raised THEN [RetrieveQuiet EXCEPT !.error = "ValueError", !.query = q]
    ELSE [RetrieveQuiet EXCEPT !.outcome = "ok", !.query = q, !.pairs = r.pairs]

\* RAGPipeline.retrieve(question); emb is what client.embed([question])
\* answers
retrieve(es0, k, emb) ==
    IF ~emb.ok THEN [RetrieveQuiet EXCEPT !.error = "RuntimeError", !.failed = "embed"]
    ELSE IF emb.vectors = <<>> THEN [RetrieveQuiet EXCEPT !.error = "IndexError"]
    ELSE Retrieved(emb.vectors[1], search(es0, emb.vectors[1], k))

\* the separator build_context joins the snippets with
Separator == <<"\n", "\n", "-", "-", "-", "\n", "\n">>

\* Separator.join(snippets)
RECURSIVE Join(_)
Join(snippets) ==
    IF snippets = <<>> THEN <<>>
    ELSE IF Len(snippets) = 1 THEN Head(snippets)
    ELSE Head(snippets) \o Separator \o Join(Tail(snippets))

\* RAGPipeline.build_context(indices)
build_context(ts0, indices) ==
    IF \E j \in 1..Len(indices) : ~HasItem(ts0, indices[j])
    THEN [raised |-> TRUE, context |-> <<>>]
    ELSE [raised |-> FALSE, context |-> Join(Items(ts0, indices))]

\* what `self.rerank(...) if cand_indices else []` gives without a call
NotReranked ==
    [outcome |-> "ok", error |-> "", calls |-> <<>>, failed |-> "",
     results |-> <<>>, indices |-> <<>>]

\* a rerank loop that returns the local index instead of the global one
RECURSIVE MapBack_local(_, _)
MapBack_local(results, cand) ==
    IF results = <<>> THEN <<>>
    ELSE LET item == Head(results)
             rest == MapBack_local(Tail(results), cand)
         IN  IF item.is_int /\ 0 <= item.index /\ item.index < Len(cand)
             THEN <<item.index>> \o rest
             ELSE rest

\* the loop of rerank: the global index of every result whose "index" is an
\* int within the candidate list, in result order
RECURSIVE MapBack(_, _)
MapBack(results, cand) ==
    IF results = <<>> THEN <<>>
    ELSE LET item == Head(results)
             rest == MapBack(Tail(results), cand)
         IN  IF item.is_int /\ 0 <= item.index /\ item.index < Len(cand)
             THEN <<cand[item.index + 1]>> \o rest
             ELSE rest

\* a rerank that returns at once when there is no candidate
rerank_guarded(ts0, cand, rr) ==
    IF cand = <<>> THEN NotReranked
    ELSE IF \E j \in 1..Len(cand) : ~HasItem(ts0, cand[j])
    THEN [NotReranked EXCEPT !.outcome = "error", !.error = "IndexError"]
    ELSE IF ~rr.ok
         THEN [NotReranked EXCEPT !.outcome = "error", !.error = "RuntimeError",
                                  !.calls = <<"rerank">>, !.failed = "rerank"]
    ELSE [NotReranked EXCEPT !.calls = <<"rerank">>, !.results = rr.results,
                             !.indices = MapBack(rr.results, cand)]

\* RAGPipeline.rerank(question, candidate_indices); rr is what client.rerank
\* answers when it is called: [ok |-> FALSE] when it raises, else its results
rerank(ts0, cand, rr) ==
    IF \E j \in 1..Len(cand) : ~HasItem(ts0, cand[j])
    THEN [NotReranked EXCEPT !.outcome = "error", !.error = "IndexError"]
    ELSE IF ~rr.ok
         THEN [NotReranked EXCEPT !.outcome = "error", !.error = "RuntimeError",
                                  !.calls = <<"rerank">>, !.failed = "rerank"]
    ELSE [NotReranked EXCEPT !.calls = <<"rerank">>, !.results = rr.results,
                             !.indices = MapBack(rr.results, cand)]

\* max_context_docs or self.rerank_k: None and 0 are both falsy
OrRerankK(maxdocs, rk) == IF maxdocs.supplied /\ maxdocs.value # 0 THEN maxdocs.value ELSE rk

\* reranked or cand_indices[: (max_context_docs or self.rerank_k)]
FinalIndices(reranked, cand, maxdocs, rk) ==
    IF reranked # <<>> THEN reranked ELSE Prefix(cand, OrRerankK(maxdocs, rk))

\* an answer that goes on after a failed rerank call as if it had returned []
AnswerRanked_swallow(ts0, rk, maxdocs, chat_ok, got, cand, rrk) ==
    LET base == [outcome |-> "error", error |-> rrk.error,
                 calls |-> got.calls \o rrk.calls, failed |-> rrk.failed,
                 query |-> got.query, pairs |-> got.pairs, cand |-> cand,
                 results |-> rrk.results, reranked |-> <<>>, fallback |-> FALSE,
                 indices |-> <<>>, sources |-> <<>>, context |-> <<>>]
    IN  IF ~chat_ok
        THEN [base EXCEPT !.error = "RuntimeError", !.failed = "chat",
                          !.reranked = rrk.indices,
                          !.fallback = (rrk.indices = <<>>),
                          !.calls = got.calls \o rrk.calls \o <<"chat">>]
        ELSE [base EXCEPT !.outcome = "ok", !.error = "",
                          !.reranked = rrk.indices,
                          !.fallback = (rrk.indices = <<>>),
                          !.calls = got.calls \o rrk.calls \o <<"chat">>,
                          !.indices = FinalIndices(rrk.indices, cand, maxdocs, rk),
                          !.sources = Items(ts0, FinalIndices(rrk.indices, cand, maxdocs, rk)),
                          !.context = build_context(ts0, FinalIndices(rrk.indices, cand, maxdocs, rk)).context]

\* answer from `final_indices = ...` on; got is what retrieve returned, cand
\* the candidate indices, rrk what the rerank step did
AnswerRanked(ts0, rk, maxdocs, chat_ok, got, cand, rrk) ==
    LET base == [outcome |-> "error", error |-> rrk.error,
                 calls |-> got.calls \o rrk.calls, failed |-> rrk.failed,
                 query |-> got.query, pairs |-> got.pairs, cand |-> cand,
                 results |-> rrk.results, reranked |-> <<>>, fallback |-> FALSE,
                 indices |-> <<>>, sources |-> <<>>, context |-> <<>>]
    IN  IF rrk.outcome = "error" THEN base
        ELSE IF ~chat_ok
             THEN [base EXCEPT !.error = "RuntimeError", !.failed = "chat",
                               !.reranked = rrk.indices,
                               !.fallback = (rrk.indices = <<>>),
                               !.calls = got.calls \o rrk.calls \o <<"chat">>]
        ELSE [base EXCEPT !.outcome = "ok",
                          !.reranked = rrk.indices,
                          !.fallback = (rrk.indices = <<>>),
                          !.calls = got.calls \o rrk.calls \o <<"chat">>,
                          !.indices = FinalIndices(rrk.indices, cand, maxdocs, rk),
                          !.sources = Items(ts0, FinalIndices(rrk.indices, cand, maxdocs, rk)),
                          !.context = build_context(ts0, FinalIndices(rrk.indices, cand, maxdocs, rk)).context]

\* [i for i, _ in candidates]
CandIndices(pairs) == [j \in 1..Len(pairs) |-> pairs[j].index]

\* an answer that calls rerank even when there is no candidate
AnswerRetrieved_always(ts0, rk, maxdocs, rr, chat_ok, got) ==
    IF got.outcome = "error"
    THEN [outcome |-> "error", error |-> got.error, calls |-> got.calls,
          failed |-> got.failed, query |-> got.query, pairs |-> <<>>,
          cand |-> <<>>, results |-> <<>>, reranked |-> <<>>,
          fallback |-> FALSE, indices |-> <<>>, sources |-> <<>>,
          context |-> <<>>]
    ELSE AnswerRanked(ts0, rk, maxdocs, chat_ok, got, CandIndices(got.pairs),
                      rerank(ts0, CandIndices(got.pairs), rr))

\* answer from `cand_indices = ...` on; got is what retrieve did
AnswerRetrieved(ts0, rk, maxdocs, rr, chat_ok, got) ==
    IF got.outcome = "error"
    THEN [outcome |-> "error", error |-> got.error, calls |-> got.calls,
          failed |-> got.failed, query |-> got.query, pairs |-> <<>>,
          cand |-> <<>>, results |-> <<>>, reranked |-> <<>>,
          fallback |-> FALSE, indices |-> <<>>, sources |-> <<>>,
          context |-> <<>>]
    ELSE AnswerRanked(ts0, rk, maxdocs, chat_ok, got, CandIndices(got.pairs),
                      IF CandIndices(got.pairs) # <<>>
                      THEN rerank(ts0, CandIndices(got.pairs), rr)
                      ELSE NotReranked)

\* RAGPipeline.answer(question, max_context_docs); emb, rr and chat_ok are
\* what client.embed, client.rerank and client.chat answer when called
answer(ts0, es0, k, rk, maxdocs, emb, rr, chat_ok) ==
    AnswerRetrieved(ts0, rk, maxdocs, rr, chat_ok, retrieve(es0, k, emb))

----------------------------------------------------------------------------
(* Pipeline operations *)

\* RAGPipeline.index_texts(docs)
IndexTexts(docs, emb) ==
    \E r \in {index_texts(texts, embeddings, docs, chunk_size, chunk_overlap, emb)} :
    /\ Idle
    /\ Len(texts) + Len(r.chunks) <= MaxIndexed
    /\ texts' = r.texts
    /\ embeddings' = r.embeddings
    /\ op' = [Before EXCEPT !.name = "index_texts", !.docs = docs, !.outcome = r.outcome,
                            !.error = r.error, !.calls = r.calls, !.failed = r.failed,
                            !.in_texts = r.chunks, !.in_embeddings = r.vectors,
                            !.count = r.count]
    /\ PipelineUnchanged

\* RAGPipeline.retrieve(question)
Retrieve(emb) ==
    \E r \in {retrieve(embeddings, top_k, emb)} :
    /\ Idle
    /\ op' = [Before EXCEPT !.name = "retrieve", !.outcome = r.outcome,
                            !.error = r.error, !.calls = r.calls, !.failed = r.failed,
                            !.query = r.query, !.k = top_k, !.pairs = r.pairs]
    /\ UNCHANGED <<texts, embeddings>>
    /\ PipelineUnchanged

\* RAGPipeline.build_context(indices)
BuildContext(indices) ==
    \E r \in {build_context(texts, indices)} :
    /\ Idle
    /\ op' = [Before EXCEPT !.name = "build_context", !.indices = indices,
                            !.context = r.context,
                            !.outcome = IF r.raised THEN "error" ELSE "ok",
                            !.error = IF r.raised THEN "IndexError" ELSE ""]
    /\ UNCHANGED <<texts, embeddings>>
    /\ PipelineUnchanged

\* RAGPipeline.rerank(question, cand)
Rerank(cand, rr) ==
    \E r \in {rerank(texts, cand, rr)} :
    /\ Idle
    /\ op' = [Before EXCEPT !.name = "rerank", !.outcome = r.outcome,
                            !.error = r.error, !.calls = r.calls, !.failed = r.failed,
                            !.cand = cand, !.results = r.results,
                            !.indices = r.indices]
    /\ UNCHANGED <<texts, embeddings>>
    /\ PipelineUnchanged

\* RAGPipeline.answer(question, maxdocs)
Answer(maxdocs, emb, rr, chat_ok) ==
    \E r \in {answer(texts, embeddings, top_k, rerank_k, maxdocs, emb, rr, chat_ok)} :
    /\ Idle
    /\ op' = [Before EXCEPT !.name = "answer", !.outcome = r.outcome,
                            !.error = r.error, !.calls = r.calls, !.failed = r.failed,
                            !.maxdocs = maxdocs, !.query = r.query, !.pairs = r.pairs,
                            !.cand = r.cand, !.results = r.results,
                            !.reranked = r.reranked, !.fallback = r.fallback,
                            !.indices = r.indices, !.sources = r.sources,
                            !.context = r.context]
    /\ UNCHANGED <<texts, embeddings>>
    /\ PipelineUnchanged

----------------------------------------------------------------------------
(* A split_text call, one loop iteration at a time *)

StoreUnchanged ==
    UNCHANGED <<texts, embeddings, chunk_size, chunk_overlap, top_k, rerank_k, op,
                env, _settings, adders>>

\* one loop iteration
SplitLoop ==
    /\ sp.pc = "loop"
    /\ sp' = SplitStep(sp)
    /\ StoreUnchanged

----------------------------------------------------------------------------
(* InMemoryVectorStore.add called by two threads on one store, a statement *)
(* of add at a time                                                        *)

Callers == {1, 2}

\* the frame of a caller that has not called add yet
AdderIdle == [pc |-> "idle", texts |-> <<>>, embeddings |-> <<>>]

\* an add that skips the length check
AddEnter_unchecked(ts, es) ==
    [pc |-> IF ts = <<>> THEN "done" ELSE "extend_texts",
     texts |-> ts, embeddings |-> es]

\* add(ts, es) up to `self.texts.extend(texts)`: the length check and the
\* return of an empty batch.
\* pc: "error" (ValueError), "done" (returned), "extend_texts",
\* "extend_embeddings" (the statement the caller is at)
AddEnter(ts, es) ==
    [pc |-> IF Len(ts) # Len(es) THEN "error"
            ELSE IF ts = <<>> THEN "done" ELSE "extend_texts",
     texts |-> ts, embeddings |-> es]

AddersFrame == UNCHANGED <<chunk_size, chunk_overlap, top_k, rerank_k, op, sp, env, _settings>>

\* caller c calls add(ts, es)
AddCall(c, ts, es) ==
    /\ adders[c].pc = "idle"
    /\ adders' = [adders EXCEPT ![c] = AddEnter(ts, es)]
    /\ UNCHANGED <<texts, embeddings>>
    /\ AddersFrame

\* caller c runs `self.texts.extend(texts)`
AddExtendTexts(c) ==
    /\ adders[c].pc = "extend_texts"
    /\ texts' = texts \o adders[c].texts
    /\ adders' = [adders EXCEPT ![c].pc = "extend_embeddings"]
    /\ UNCHANGED embeddings
    /\ AddersFrame

\* caller c runs `self.embeddings.extend(embeddings)` and returns
AddExtendEmbeddings(c) ==
    /\ adders[c].pc = "extend_embeddings"
    /\ embeddings' = embeddings \o adders[c].embeddings
    /\ adders' = [adders EXCEPT ![c].pc = "done"]
    /\ UNCHANGED texts
    /\ AddersFrame

----------------------------------------------------------------------------
(* Specifications *)

\* RAGPipeline.__init__ defaults
DefaultChunkSize == 800
DefaultChunkOverlap == 120
DefaultTopK == 12
DefaultRerankK == 6

\* the environment with none of the variables set, the global as the module
\* defines it
NoEnv ==
    [NEBULABLOCK_API_KEY |-> Unset, RAG_CHUNK_SIZE |-> Unset,
     RAG_CHUNK_OVERLAP |-> Unset, RAG_TOP_K |-> Unset, RAG_RERANK_K |-> Unset]

SettingsUnused == env = NoEnv /\ _settings = None

\* no concurrent caller
AddersUnused == adders = <<>>

\* InMemoryVectorStore.__init__, in a pipeline of default configuration
StoreInit ==
    /\ texts = <<>>
    /\ embeddings = <<>>
    /\ chunk_size = DefaultChunkSize
    /\ chunk_overlap = DefaultChunkOverlap
    /\ top_k = DefaultTopK
    /\ rerank_k = DefaultRerankK
    /\ op = NoOp
    /\ sp = SplitIdle
    /\ SettingsUnused
    /\ AddersUnused

StoreTexts == {<<"a">>}

\* the (texts, embeddings) arguments given to add: every batch of one entry,
\* batches of two entries, and lists of different lengths
AddInputs ==
    {<<ts, es>> : ts \in SeqsUpTo(StoreTexts, 1), es \in SeqsUpTo(Vectors, 1)}
    \cup {<<ts, es>> : ts \in [1..2 -> StoreTexts], es \in Vectors \X {<<1, 0>>, <<1>>}}
    \cup {<<ts, es>> : ts \in [1..2 -> StoreTexts], es \in SeqsUpTo({<<1>>}, 1)}

StoreNext ==
    \/ Idle /\ \E in \in AddInputs : Add(in[1], in[2], MaxStore)
    \/ Clear
    \/ Idle /\ \E q \in Queries, k \in 0..MaxK : Search(q, k)
    \/ Size
    \/ Return

\* InMemoryVectorStore used directly by one caller: add, clear, search, size
StoreSpec == StoreInit /\ [][StoreNext]_vars

\* the configurations a pipeline is constructed with; the constructor checks
\* nothing, so the third one (chunk_overlap = chunk_size) can be constructed
\* too (its index_texts raises as soon as there is a document to split), and
\* so can the last one (top_k = 0: its search raises)
Configs ==
    {[chunk_size |-> 2, chunk_overlap |-> 1, top_k |-> 2, rerank_k |-> 1],
     [chunk_size |-> 3, chunk_overlap |-> 0, top_k |-> 3, rerank_k |-> 2],
     [chunk_size |-> 1, chunk_overlap |-> 1, top_k |-> 1, rerank_k |-> 2],
     [chunk_size |-> 2, chunk_overlap |-> 0, top_k |-> 0, rerank_k |-> 1]}

\* RAGPipeline.__init__
Init ==
    /\ texts = <<>>
    /\ embeddings = <<>>
    /\ \E c \in Configs :
          /\ chunk_size = c.chunk_size
          /\ chunk_overlap = c.chunk_overlap
          /\ top_k = c.top_k
          /\ rerank_k = c.rerank_k
    /\ op = NoOp
    /\ sp = SplitIdle
    /\ SettingsUnused
    /\ AddersUnused

\* the documents indexed
Documents == {<<" ">>, <<"a">>, <<"a", " ", "b">>}

EmbedFails == [ok |-> FALSE, vectors |-> <<>>]

\* what client.embed can answer to n texts: a failure, n vectors, or a list
\* of another length (client.embed does not check the count)
EmbedAnswers(n) ==
    {EmbedFails}
    \cup {[ok |-> TRUE, vectors |-> v] : v \in [1..n -> EmbedVectors]}
    \cup {[ok |-> TRUE, vectors |-> v] : v \in [1..(n + 1) -> {<<1>>}]}
    \cup {[ok |-> TRUE, vectors |-> v] : v \in {w \in [1..(n - 1) -> {<<1>>}] : n >= 1}}

\* what client.embed can answer to the one question of retrieve
QueryAnswers ==
    {EmbedFails} \cup {[ok |-> TRUE, vectors |-> v] : v \in SeqsUpTo(EmbedVectors \cup {<<1>>}, 1)}

\* a result of a rerank answer whose "index" is the int i
Result(i) == [is_int |-> TRUE, index |-> i]

\* what client.rerank can answer: a failure, a list of results with "index"
\* 0 or 1 (1 is out of range for a single candidate), or a list that starts
\* with a negative "index", a large one, or one that is not an int
RerankAnswers ==
    {[ok |-> FALSE, results |-> <<>>]}
    \cup {[ok |-> TRUE, results |-> r] : r \in SeqsUpTo({Result(0), Result(1)}, MaxResults)}
    \cup {[ok |-> TRUE, results |-> <<Result(i), Result(1), Result(0)>>] : i \in {-1, 2}}
    \cup {[ok |-> TRUE, results |-> <<[is_int |-> FALSE, index |-> 0], Result(0)>>]}

\* max_context_docs: not supplied, or an int
MaxDocsInputs == {NoMax} \cup {[supplied |-> TRUE, value |-> v] : v \in 0..MaxK}

\* candidate_indices given to rerank directly, to a store of n entries: lists
\* without repetition of its positions and of the first position beyond it
CandidateLists(n) ==
    {c \in SeqsUpTo(0..n, MaxK) : \A i, j \in 1..Len(c) : i # j => c[i] # c[j]}

\* the (texts, embeddings) arguments given to add on a pipeline's store
PipelineAddInputs ==
    {<<ts, es>> : ts \in SeqsUpTo(StoreTexts, 1), es \in SeqsUpTo(EmbedVectors, 1)}

Next ==
    \/ Idle /\ \E docs \in SeqsUpTo(Documents, MaxIndexed) :
          \E emb \in EmbedAnswers(Len(Chunked(docs, chunk_size, chunk_overlap).chunks)) :
             IndexTexts(docs, emb)
    \/ Idle /\ \E in \in PipelineAddInputs : Add(in[1], in[2], MaxIndexed)
    \/ Clear
    \/ Idle /\ \E q \in Queries, k \in 0..MaxK : Search(q, k)
    \/ Size
    \/ Idle /\ \E emb \in QueryAnswers : Retrieve(emb)
    \/ Idle /\ \E indices \in CandidateLists(Len(texts)) : BuildContext(indices)
    \/ Idle /\ \E cand \in CandidateLists(Len(texts)), rr \in RerankAnswers : Rerank(cand, rr)
    \/ Idle /\ \E maxdocs \in MaxDocsInputs, emb \in QueryAnswers, rr \in RerankAnswers,
          chat_ok \in BOOLEAN : Answer(maxdocs, emb, rr, chat_ok)
    \/ Return

\* one RAGPipeline and its store (the public attribute `store`), used by one
\* caller
Spec == Init /\ [][Next]_vars

\* the environments of a process: the key not set, empty or set; sizes that
\* are not positive, not numbers or not above the overlap; counts of zero
Environments ==
    [NEBULABLOCK_API_KEY : {Unset, SetTo(<<>>), SetTo(<<"k">>)},
     RAG_CHUNK_SIZE : {Unset, SetTo(<<"0">>), SetTo(<<"2">>), SetTo(<<"x">>)},
     RAG_CHUNK_OVERLAP : {Unset, SetTo(<<"-", "1">>), SetTo(<<"1">>), SetTo(<<"2">>)},
     RAG_TOP_K : {Unset, SetTo(<<"0">>), SetTo(<<" ", "1">>)},
     RAG_RERANK_K : {Unset, SetTo(<<"0">>), SetTo(<<"1", "0">>)}]

\* the settings module as imported, in a process of some environment
SettingsInit ==
    /\ texts = <<>>
    /\ embeddings = <<>>
    /\ chunk_size = DefaultChunkSize
    /\ chunk_overlap = DefaultChunkOverlap
    /\ top_k = DefaultTopK
    /\ rerank_k = DefaultRerankK
    /\ op = NoOp
    /\ sp = SplitIdle
    /\ AddersUnused
    /\ _settings = None
    /\ env \in Environments

SettingsNext ==
    \/ GetSettings
    \/ ResetSettings
    \/ Return

\* get_settings and reset_settings called by one caller
SettingsSpec == SettingsInit /\ [][SettingsNext]_vars

\* the texts and the embeddings concurrent callers add: batches of no, one
\* and two entries, lists of different lengths included
ConcTexts == {<<>>, <<<<"a">>>>, <<<<"b">>>>, <<<<"a">>, <<"b">>>>}
ConcEmbeddings == {<<>>, <<<<1, 0>>>>, <<<<0, 1>>>>, <<<<1, 0>>, <<0, 1>>>>}

\* an empty store shared by two threads that have not called add yet
ConcInit ==
    /\ texts = <<>>
    /\ embeddings = <<>>
    /\ chunk_size = DefaultChunkSize
    /\ chunk_overlap = DefaultChunkOverlap
    /\ top_k = DefaultTopK
    /\ rerank_k = DefaultRerankK
    /\ op = NoOp
    /\ sp = SplitIdle
    /\ SettingsUnused
    /\ adders = [c \in Callers |-> AdderIdle]

ConcNext ==
    \E c \in Callers :
        \/ \E ts \in ConcTexts, es \in ConcEmbeddings : AddCall(c, ts, es)
        \/ AddExtendTexts(c)
        \/ AddExtendEmbeddings(c)

\* two threads, each calling add once on the same store
ConcSpec == ConcInit /\ [][ConcNext]_vars

\* every short text with every small configuration, valid or not, at the
\* loop of split_text
SplitInit ==
    /\ texts = <<>>
    /\ embeddings = <<>>
    /\ chunk_size = DefaultChunkSize
    /\ chunk_overlap = DefaultChunkOverlap
    /\ top_k = DefaultTopK
    /\ rerank_k = DefaultRerankK
    /\ op = NoOp
    /\ SettingsUnused
    /\ AddersUnused
    /\ \E text \in SeqsUpTo(Alphabet, MaxLen), size \in 0..MaxChunk, overlap \in -1..MaxChunk :
          sp = SplitEnter(text, size, overlap)

SplitNext == SplitLoop

\* split_text, one loop iteration at a time
SplitSpec == SplitInit /\ [][SplitNext]_vars

\* split_text run by a thread that is not stopped: an iteration that can be
\* taken is taken
SplitRunSpec == SplitSpec /\ WF_vars(SplitLoop)

----------------------------------------------------------------------------
(* Claims *)

\* the elements of a sequence
Range(s) == {s[j] : j \in 1..Len(s)}

\* C1: after any sequence of index_texts, add and clear calls of one caller,
\* failed calls included, texts and embeddings have the same length.
C1_SameLength == Len(texts) = Len(embeddings)

\* a failed index_texts (embed answered with the wrong count) on a store that
\* already holds entries
C1_Witness ==
    /\ op.name = "index_texts" /\ op.outcome = "error" /\ op.error = "ValueError"
    /\ op.calls = <<"embed">>
    /\ Len(texts) > 0

\* C2: when index_texts fails, because embed raises or because it answers
\* with another number of vectors than there are chunks, the store is exactly
\* what it was before the call.
C2_FailedIndexLeavesStore ==
    (op.name = "index_texts" /\ op.outcome = "error")
        => (texts = op.pre_texts /\ embeddings = op.pre_embeddings)

\* index_texts failed on a non-empty store because embed answered two chunks
\* with another number of vectors
C2_Witness ==
    /\ op.name = "index_texts" /\ op.outcome = "error"
    /\ op.calls = <<"embed">> /\ op.failed = ""
    /\ Len(op.in_texts) # Len(op.in_embeddings)
    /\ op.pre_texts # <<>>

\* C3 as claimed: rerank with an empty candidate_indices returns an empty list
\* and makes no call to the external rerank capability.
C3_EmptyRerankMakesNoCall ==
    (op.name = "rerank" /\ op.cand = <<>>)
        => (op.outcome = "ok" /\ op.indices = <<>> /\ op.calls = <<>>)

\* C3 amended: rerank with an empty candidate_indices does call the external
\* rerank capability, once, and returns an empty list when that call succeeds
\* (it raises when the call fails); it is answer that makes no rerank call
\* when retrieval returned no candidate.
C3_EmptyRerankCalls ==
    /\ (op.name = "rerank" /\ op.cand = <<>>)
          => /\ op.calls = <<"rerank">>
             /\ op.outcome = "ok" => op.indices = <<>>
             /\ op.outcome = "error" => op.failed = "rerank"
    /\ (op.name = "answer" /\ op.cand = <<>>) => "rerank" \notin Range(op.calls)

\* rerank was given no candidate and the external capability answered with
\* results all the same
C3_Witness ==
    /\ op.name = "rerank" /\ op.cand = <<>>
    /\ op.outcome = "ok" /\ op.results # <<>>

\* the results whose "index" is an int within the candidate list
InRange(results, cand) ==
    SelectSeq(results, LAMBDA it : it.is_int /\ 0 <= it.index /\ it.index < Len(cand))

\* C4: for candidate_indices that are positions of the store and any list of
\* results of the external rerank capability, rerank raises nothing and
\* returns, in result order, candidate_indices[local] for exactly the results
\* whose local index lies in [0, len(candidate_indices)); every returned value
\* is an element of candidate_indices.
C4_RerankMapsBack ==
    (op.name = "rerank" /\ op.calls = <<"rerank">> /\ op.failed = "")
        => /\ op.outcome = "ok"
           /\ Len(op.indices) = Len(InRange(op.results, op.cand))
           /\ \A j \in 1..Len(op.indices) :
                 op.indices[j] = op.cand[InRange(op.results, op.cand)[j].index + 1]
           /\ Range(op.indices) \subseteq Range(op.cand)

\* rerank of the candidates [1, 0] answered with local indices [2, 1, 0]:
\* the first is dropped and [0, 1] is returned
C4_Witness ==
    /\ op.name = "rerank" /\ op.outcome = "ok"
    /\ op.cand = <<1, 0>>
    /\ op.results = <<Result(2), Result(1), Result(0)>>
    /\ op.indices = <<0, 1>>

\* C5 as claimed: in answer, when reranking yields an empty list, the final
\* indices are the first max_context_docs candidates in retrieval order when
\* a non-negative max_context_docs is supplied, and the first rerank_k when
\* it is not; when reranking yields a non-empty list, they are that list.
C5_FallbackPrefix ==
    (op.name = "answer" /\ op.outcome = "ok")
        => IF op.reranked # <<>> THEN op.indices = op.reranked
           ELSE IF op.maxdocs.supplied /\ op.maxdocs.value >= 0
                THEN op.indices = Prefix(op.cand, op.maxdocs.value)
                ELSE op.indices = Prefix(op.cand, rerank_k)

\* the position of an external call in the order embed, rerank, chat
CallRank(c) == IF c = "embed" THEN 1 ELSE IF c = "rerank" THEN 2 ELSE 3

\* C6: within one answer the external calls are made in the order embed,
\* rerank, chat, each at most once; rerank is called only when retrieval
\* returned a candidate; after a failed external call no other is made.
C6_CallOrder ==
    op.name = "answer"
        => /\ Range(op.calls) \subseteq {"embed", "rerank", "chat"}
           /\ \A i, j \in 1..Len(op.calls) :
                 i < j => CallRank(op.calls[i]) < CallRank(op.calls[j])
           /\ op.calls # <<>> /\ op.calls[1] = "embed"
           /\ "rerank" \in Range(op.calls) => op.cand # <<>>
           /\ op.failed # "" => op.calls[Len(op.calls)] = op.failed
           /\ op.outcome = "ok" => op.calls[Len(op.calls)] = "chat"

\* an answer whose rerank call failed: embed and rerank were called, chat not
C6_Witness ==
    /\ op.name = "answer" /\ op.failed = "rerank"
    /\ op.calls = <<"embed", "rerank">>

\* C7: when the external embed, rerank or chat call fails during answer,
\* answer raises and returns no result record; a failed rerank call never
\* leads to the fallback to retrieval order, which is taken only after a
\* rerank call that succeeded without a usable result, or without a rerank
\* call.
C7_FailurePropagates ==
    op.name = "answer"
        => /\ op.failed # ""
                => (op.outcome = "error" /\ op.error = "RuntimeError"
                    /\ op.indices = <<>> /\ op.sources = <<>>)
           /\ op.failed \in {"embed", "rerank"} => ~op.fallback
           /\ op.fallback
                => \/ "rerank" \notin Range(op.calls)
                   \/ (op.failed # "rerank" /\ InRange(op.results, op.cand) = <<>>)

\* an answer over a non-empty candidate list whose rerank call failed
C7_Witness ==
    /\ op.name = "answer" /\ op.failed = "rerank"
    /\ Len(op.cand) >= 2
    /\ op.outcome = "error"

\* the score search gives the stored entry at position i for the query of op
ScoreOf(i) == cosine_similarity(op.query, embeddings[i + 1])

SameDim == {i \in 0..(Len(embeddings) - 1) : Len(embeddings[i + 1]) = Len(op.query)}

\* C9: when the store holds embeddings of several dimensions, search with
\* k > 0 raises nothing and returns only entries of the query's dimension:
\* an entry of another dimension is never in the result, and the result has
\* min(k, number of entries of the query's dimension) pairs.
C9_SkipsOtherDimensions ==
    (op.name = "search" /\ op.k > 0)
        => /\ op.outcome = "ok"
           /\ \A j \in 1..Len(op.pairs) : op.pairs[j].index \in SameDim
           /\ Len(op.pairs) = Min(op.k, Cardinality(SameDim))

\* a search over a store of two dimensions that returns fewer than k pairs
\* because entries of the other dimension are skipped
C9_Witness ==
    /\ op.name = "search" /\ op.k = 2 /\ Len(op.pairs) = 1
    /\ Len(embeddings) = 3
    /\ Cardinality(SameDim) = 1

\* position p of the stripped text lies in an emitted chunk
Covered(p) == \E j \in 1..Len(sp.spans) : sp.spans[j][1] <= p /\ p < sp.spans[j][2]

\* C10 as claimed: for chunk_size > chunk_overlap >= 0, every character
\* position of the stripped text lies in at least one emitted chunk.
C10_EveryPositionCovered ==
    sp.pc = "done" => \A p \in 0..(sp.n - 1) : Covered(p)

\* C10 amended: for chunk_size > chunk_overlap >= 0, every position of the
\* stripped text that holds a non-whitespace character lies in at least one
\* emitted chunk (whitespace at the ends of a window is stripped from its
\* chunk and may lie in none).
C10_NonSpaceCovered ==
    sp.pc = "done"
        => \A p \in 0..(sp.n - 1) : sp.text[p + 1] \notin Whitespace => Covered(p)

\* a finished split of a text with inner whitespace into several chunks
C10_Witness ==
    /\ sp.pc = "done" /\ Len(sp.chunks) >= 2
    /\ \E p \in 0..(sp.n - 1) : sp.text[p + 1] \in Whitespace /\ ~Covered(p)

\* the arguments of the split_text call pass its checks
SplitValid == sp.size > 0 /\ 0 <= sp.overlap /\ sp.overlap < sp.size

\* C11: for every text and every valid chunk_size and chunk_overlap, each
\* chunk split_text has emitted is non-empty, neither starts nor ends with
\* whitespace and is at most chunk_size long; a text that is empty after
\* trimming returns the empty list and raises nothing.
C11_ChunksTrimmedAndBounded ==
    SplitValid
        => /\ sp.pc # "error"
           /\ \A j \in 1..Len(sp.chunks) :
                 /\ sp.chunks[j] # <<>>
                 /\ Head(sp.chunks[j]) \notin Whitespace
                 /\ sp.chunks[j][Len(sp.chunks[j])] \notin Whitespace
                 /\ Len(sp.chunks[j]) <= sp.size
           /\ sp.n = 0 => (sp.pc = "done" /\ sp.chunks = <<>>)

\* a finished split whose first window was full and held whitespace at its
\* end, so that its chunk is shorter than chunk_size, and whose last chunk
\* fills chunk_size
C11_Witness ==
    /\ sp.pc = "done" /\ SplitValid
    /\ Len(sp.chunks) >= 2
    /\ Len(sp.chunks[1]) < sp.size /\ sp.n > sp.size
    /\ Len(sp.chunks[Len(sp.chunks)]) = sp.size

\* the pipeline's chunk_size and chunk_overlap pass the checks of split_text
ConfigValid == chunk_size > 0 /\ 0 <= chunk_overlap /\ chunk_overlap < chunk_size

\* the chunks split_text yields for each document given to index_texts
ChunksOfDocs ==
    [j \in 1..Len(op.docs) |-> split_text(op.docs[j], chunk_size, chunk_overlap).chunks]

\* the lists of a list of lists, one after the other
RECURSIVE Flat(_)
Flat(ss) == IF ss = <<>> THEN <<>> ELSE Head(ss) \o Flat(Tail(ss))

\* embed did not raise and, when called, answered one vector for each chunk
EmbedWorked ==
    /\ op.failed # "embed"
    /\ op.calls = <<"embed">> => Len(op.in_embeddings) = Len(op.in_texts)

\* C12: index_texts with a working embed (and a configuration split_text
\* accepts) returns the sum over the documents of the number of chunks
\* split_text yields for each and appends exactly those chunks, in document
\* order and within a document in split order, so the store grows by the
\* count returned; embed is called once, with the whole batch, when there is
\* a chunk, and is not called, 0 being returned, when there is none.
C12_IndexTextsCount ==
    (op.name = "index_texts" /\ ConfigValid /\ EmbedWorked)
        => /\ op.outcome = "ok"
           /\ op.count = SumSeq([j \in 1..Len(op.docs) |-> Len(ChunksOfDocs[j])])
           /\ texts = op.pre_texts \o Flat(ChunksOfDocs)
           /\ embeddings = op.pre_embeddings \o op.in_embeddings
           /\ Len(texts) = Len(op.pre_texts) + op.count
           /\ IF Flat(ChunksOfDocs) # <<>>
              THEN op.calls = <<"embed">> /\ op.in_texts = Flat(ChunksOfDocs)
              ELSE op.calls = <<>> /\ op.count = 0

\* two documents indexed in one call, one chunk each, the two chunks
\* different
C12_Witness ==
    /\ op.name = "index_texts" /\ op.outcome = "ok"
    /\ Len(op.docs) = 2 /\ op.count = 2
    /\ \A j \in 1..2 : Len(ChunksOfDocs[j]) = 1
    /\ op.in_texts[1] # op.in_texts[2]
    /\ op.calls = <<"embed">>

\* C13: a successful add or index_texts leaves every entry that was stored
\* at its index, with its text and its embedding, and appends the new
\* entries after them in the order given; retrieve, rerank, build_context,
\* search and size leave the store as it was.
C13_AppendOnly ==
    /\ (op.name \in {"add", "index_texts"} /\ op.outcome = "ok")
          => /\ Len(texts) >= Len(op.pre_texts)
             /\ Len(embeddings) >= Len(op.pre_embeddings)
             /\ \A i \in 1..Len(op.pre_texts) :
                   texts[i] = op.pre_texts[i] /\ embeddings[i] = op.pre_embeddings[i]
             /\ texts = op.pre_texts \o op.in_texts
             /\ embeddings = op.pre_embeddings \o op.in_embeddings
    /\ op.name \in {"retrieve", "rerank", "build_context", "search", "size"}
          => texts = op.pre_texts /\ embeddings = op.pre_embeddings

\* an index_texts that appended a chunk, with another text and another
\* embedding, after an entry that was stored
C13_Witness ==
    /\ op.name = "index_texts" /\ op.outcome = "ok"
    /\ Len(op.pre_texts) = 1 /\ Len(texts) = 2
    /\ texts[2] # texts[1] /\ embeddings[2] # embeddings[1]

\* the environment holds a combination get_settings rejects
EnvInvalid == from_env(env).raised \/ validate(from_env(env).settings)

\* C14 as claimed: every Settings get_settings returns passes validate;
\* with an invalid combination in the environment every get_settings call
\* fails, and an invalid snapshot is never kept in the global.
C14_InvalidNeverReturned ==
    /\ (op.name = "get_settings" /\ op.outcome = "ok") => ~validate(op.returned)
    /\ (op.name = "get_settings" /\ EnvInvalid) => op.outcome = "error"
    /\ _settings # None => ~validate(_settings)

\* C15 as claimed: when max_context_docs is not supplied, the index list
\* answer returns holds at most rerank_k entries, whatever results the
\* external rerank capability answers with.
C15_AtMostRerankK ==
    (op.name = "answer" /\ op.outcome = "ok" /\ ~op.maxdocs.supplied)
        => Len(op.indices) <= rerank_k

\* the add calls that passed the length check
Adding == {adders[c] : c \in {d \in Callers : adders[d].pc \notin {"idle", "error"}}}

\* the (text, embedding) pairs given to add
Supplied == UNION {{<<f.texts[j], f.embeddings[j]>> : j \in 1..Len(f.texts)} : f \in Adding}

\* the text at Python position i - 1 is paired with an embedding that was
\* given for another text
Mispaired(i) == <<texts[i], embeddings[i]>> \notin Supplied

\* both callers' add calls have returned or raised
Finished == \A c \in Callers : adders[c].pc \in {"done", "error"}

\* C16: when two add calls on one store interleave between texts.extend and
\* embeddings.extend, the two lists have the same length again once both
\* calls have finished, yet a text can then be paired with an embedding
\* given for another text (the state of C16_Witness); that happens only
\* when both calls appended entries.
C16_EqualLengthsWhenFinished ==
    Finished
        => /\ Len(texts) = Len(embeddings)
           /\ (\E i \in 1..Len(texts) : Mispaired(i))
                 => \A c \in Callers : adders[c].pc = "done" /\ adders[c].texts # <<>>

\* both calls have finished, the lists are equally long, and a text is
\* paired with an embedding given for another text
C16_Witness ==
    /\ Finished
    /\ Len(texts) = Len(embeddings)
    /\ \E i \in 1..Len(texts) : Mispaired(i)

\* the number of calls of the external capability c the operation made
CallCount(c) == Cardinality({j \in 1..Len(op.calls) : op.calls[j] = c})

C18_LoopTerminates ==
    /\ [][(sp.pc = "loop" /\ SplitValid)
            => IF sp'.end = sp.n THEN sp'.pc = "done"
               ELSE sp'.pc = "loop" /\ sp'.start > sp.start /\ sp'.end < sp.n]_sp
    /\ (SplitValid => <>(sp.pc = "done"))

\* a split that has taken three iterations, the cursor moving on by
\* chunk_size - chunk_overlap, and has returned
C18_Witness ==
    /\ sp.pc = "done" /\ SplitValid
    /\ sp.overlap > 0
    /\ sp.start = 2 * (sp.size - sp.overlap)
    /\ sp.end = sp.n

====
